---------------------------- MODULE Spec2Model ----------------------------
(***************************************************************************)
(* A model of src/main.py: the tolerant loader load_robust_json, the shape *)
(* normalizer extract_list_from_data and the pipeline driver (__main__).   *)
(*                                                                         *)
(* Text is a sequence of characters; a character is a one-character string *)
(* ("a", "\"", "\n"), or "#<code point>" for a character outside ASCII     *)
(* ("#8232" is U+2028 LINE SEPARATOR, "#233" is U+00E9).                   *)
(*                                                                         *)
(* A Python value is a record [kind, val]:                                 *)
(*   none (val <<>>), bool (val BOOLEAN), int (val Int), str (val Text),   *)
(*   list (val a sequence of values), dict (val a sequence of <<key, v>>   *)
(*   pairs with distinct keys, in insertion order).                        *)
(***************************************************************************)
EXTENDS Integers, Sequences, FiniteSets, TLC

VARIABLES
    \* ---- load_robust_json ----
    file,            \* what is on disk: [readable, content]
    pc,              \* position in the code being run
    content,         \* f.read()
    found_items,     \* re.findall results, <<key, value>> pairs
    idx,             \* position of the for loop over found_items
    extracted_data,  \* items kept so far
    result,          \* the value returned
    strict_raised,   \* the comment-stripped json.loads raised
    ret,             \* the source line of the return statement taken, 0 before
    raised,          \* an exception left the function / the driver
    \* ---- extract_list_from_data alone ----
    data,            \* the argument
    once,            \* extract_list_from_data(data)
    twice,           \* extract_list_from_data(once)
    \* ---- __main__ ----
    chats_data, contexts_data, chat_list, context_list, limit, i,
    query, response, context_text,
    calls            \* the evaluate_response calls made, in order

loadVars == <<file, pc, content, found_items, idx, extracted_data, result,
              strict_raised, ret, raised>>
normVars == <<data, once, twice>>
mainVars == <<chats_data, contexts_data, chat_list, context_list, limit, i,
              query, response, context_text, calls>>
vars == <<loadVars, normVars, mainVars>>

----------------------------------------------------------------------------
(* Python values *)

None == [kind |-> "none", val |-> <<>>]
PyStr(t) == [kind |-> "str", val |-> t]
PyInt(n) == [kind |-> "int", val |-> n]
PyBool(b) == [kind |-> "bool", val |-> b]
PyList(s) == [kind |-> "list", val |-> s]
PyDict(s) == [kind |-> "dict", val |-> s]

IsList(v) == v.kind = "list"
IsDict(v) == v.kind = "dict"

\* `key in d`
HasKey(d, k) == \E n \in DOMAIN d.val : d.val[n][1] = k
\* d[key], for a key that is present
Get(d, k) == d.val[CHOOSE n \in DOMAIN d.val : d.val[n][1] = k][2]
\* d.get(key): None when absent
GetOrNone(d, k) == IF HasKey(d, k) THEN Get(d, k) ELSE None
\* d[key] = v: a present key keeps its place, a new one goes last
DictSet(pairs, k, v) ==
    IF \E n \in DOMAIN pairs : pairs[n][1] = k
    THEN [n \in DOMAIN pairs |-> IF pairs[n][1] = k THEN <<k, v>> ELSE pairs[n]]
    ELSE Append(pairs, <<k, v>>)

----------------------------------------------------------------------------
(* Characters *)

DQ == "\""
SQ == "'"
BS == "\\"
NL == "\n"
CR == "\r"
TAB == "\t"
SP == " "
LS == "#8232"
EAcute == "#233"

DecDigits == <<"0", "1", "2", "3", "4", "5", "6", "7", "8", "9">>
HexDigits == DecDigits \o <<"a", "b", "c", "d", "e", "f">>
HexDigitsUpper == DecDigits \o <<"A", "B", "C", "D", "E", "F">>

\* str.splitlines() ends a line at each of these (and at "\r\n" as one)
LineBoundaries == {NL, CR, "\f", "#11", "#28", "#29", "#30", "#133", LS, "#8233"}
\* str.strip() and the pattern's \s: str.isspace()
PyWhitespace == {SP, TAB, NL, CR, "\f", "#11", "#28", "#29", "#30", "#31",
                 "#133", "#160", LS, "#8233"}
\* the whitespace of the JSON grammar
JsonWhitespace == {SP, TAB, NL, CR}
\* characters below U+0020, which json.loads (strict) refuses inside a string
ControlChars == {TAB, NL, CR, "\f", "#11", "#28", "#29", "#30", "#31"}
\* str.isdigit() is true of these, among the characters a value of the
\* model's documents can unescape to (ASCII digits, Latin-1 superscripts)
DigitChars == {DecDigits[n] : n \in DOMAIN DecDigits} \cup {"#178", "#179", "#185"}

HasPrefixAt(s, p, t) ==
    /\ p + Len(t) - 1 <= Len(s)
    /\ \A n \in 1..Len(t) : s[p + n - 1] = t[n]


\* the printable ASCII characters, code 32 first ("#96" is the grave accent)
Ascii == <<
    " ", "!", "\"", "#", "$", "%", "&", "'", "(", ")", "*", "+",
    ",", "-", ".", "/", "0", "1", "2", "3", "4", "5", "6", "7",
    "8", "9", ":", ";", "<", "=", ">", "?", "@", "A", "B", "C",
    "D", "E", "F", "G", "H", "I", "J", "K", "L", "M", "N", "O",
    "P", "Q", "R", "S", "T", "U", "V", "W", "X", "Y", "Z", "[",
    "\\", "]", "^", "_", "#96", "a", "b", "c", "d", "e", "f", "g",
    "h", "i", "j", "k", "l", "m", "n", "o", "p", "q", "r", "s",
    "t", "u", "v", "w", "x", "y", "z", "{", "|", "}", "~"
>>

\* chr(n)
CharOfCode(n) ==
    IF n \in 32..126 THEN Ascii[n - 31]
    ELSE CASE n = 9 -> TAB
           [] n = 10 -> NL
           [] n = 12 -> "\f"
           [] n = 13 -> CR
           [] OTHER -> "#" \o ToString(n)

\* ord(c), for the characters outside ASCII that documents of the model hold
CodeOfNonAscii(c) ==
    CASE c = LS -> 8232
      [] c = EAcute -> 233
      [] c = "#133" -> 133
      [] c = "#160" -> 160
      [] c = "#8233" -> 8233

AsciiControls == {TAB, NL, CR, "\f", "#7", "#8", "#11", "#28", "#29", "#30", "#31"}
IsAscii(c) == c \in AsciiControls \/ \E n \in DOMAIN Ascii : Ascii[n] = c

\* c.encode('utf-8'), as the characters chr(byte) that decoding the bytes
\* one by one gives
Utf8AsLatin1(c) ==
    IF IsAscii(c) THEN <<c>>
    ELSE LET n == CodeOfNonAscii(c) IN
         IF n < 128 THEN <<CharOfCode(n)>>
         ELSE IF n < 2048
         THEN <<CharOfCode(192 + (n \div 64)), CharOfCode(128 + (n % 64))>>
         ELSE <<CharOfCode(224 + (n \div 4096)),
                CharOfCode(128 + ((n \div 64) % 64)),
                CharOfCode(128 + (n % 64))>>

IsHex(c) == \E n \in DOMAIN HexDigits : c \in {HexDigits[n], HexDigitsUpper[n]}
HexVal(c) ==
    (CHOOSE n \in DOMAIN HexDigits : c \in {HexDigits[n], HexDigitsUpper[n]}) - 1
IsDec(c) == \E n \in DOMAIN DecDigits : DecDigits[n] = c
DecVal(c) == (CHOOSE n \in DOMAIN DecDigits : DecDigits[n] = c) - 1
IsOct(c) == IsDec(c) /\ DecVal(c) < 8

\* the value of the hex digits s[p .. p+n-1]
RECURSIVE HexRun(_, _, _)
HexRun(s, p, n) ==
    IF n = 0 THEN 0 ELSE 16 * HexRun(s, p, n - 1) + HexVal(s[p + n - 1])

AllHex(s, p, n) == p + n - 1 <= Len(s) /\ \A k \in 0..(n - 1) : IsHex(s[p + k])

----------------------------------------------------------------------------
(* str methods used by load_robust_json *)

\* content.splitlines(): a line ends at the first boundary character at or
\* after its start, "\r\n" counting as one boundary; no empty last line
RECURSIVE SplitLinesFrom(_, _, _)
SplitLinesFrom(s, p, acc) ==
    IF p > Len(s) THEN acc
    ELSE LET ends == {n \in p..Len(s) : s[n] \in LineBoundaries} IN
         IF ends = {} THEN Append(acc, SubSeq(s, p, Len(s)))
         ELSE LET e == CHOOSE n \in ends : \A m \in ends : n <= m
                  after == IF s[e] = CR /\ e < Len(s) /\ s[e + 1] = NL
                           THEN e + 2 ELSE e + 1
              IN SplitLinesFrom(s, after, Append(acc, SubSeq(s, p, e - 1)))

splitlines(s) == SplitLinesFrom(s, 1, <<>>)

\* line.strip()
strip(s) ==
    LET keep == {n \in DOMAIN s : s[n] \notin PyWhitespace} IN
    IF keep = {} THEN <<>>
    ELSE LET lo == CHOOSE n \in keep : \A m \in keep : n <= m
             hi == CHOOSE n \in keep : \A m \in keep : m <= n
         IN SubSeq(s, lo, hi)

\* line.startswith(t)
startswith(s, t) == HasPrefixAt(s, 1, t)

\* sep.join(lines)
RECURSIVE join(_, _)
join(sep, lines) ==
    IF lines = <<>> THEN <<>>
    ELSE IF Len(lines) = 1 THEN lines[1]
    ELSE lines[1] \o sep \o join(sep, Tail(lines))

\* [line for line in content.splitlines() if not line.strip().startswith("//")]
CommentMarker == <<"/", "/">>
IsCommentLine(line) == startswith(strip(line), CommentMarker)
clean_lines(s) == SelectSeq(splitlines(s), LAMBDA line : ~IsCommentLine(line))

\* clean_val.isdigit()
isdigit(s) == s # <<>> /\ \A n \in DOMAIN s : s[n] \in DigitChars


----------------------------------------------------------------------------
(* json.loads, on the part of the grammar the model's documents use:       *)
(* strings, integers, null/true/false, arrays and objects.  A result is    *)
(* [ok, val, pos]: ok is FALSE when the parse raises, pos is the next      *)
(* unread position.                                                        *)

Fail == [ok |-> FALSE, val |-> None, pos |-> 0]
Ok(v, p) == [ok |-> TRUE, val |-> v, pos |-> p]

RECURSIVE SkipJsonWs(_, _)
SkipJsonWs(s, p) ==
    IF p <= Len(s) /\ s[p] \in JsonWhitespace THEN SkipJsonWs(s, p + 1) ELSE p

JsonEscapes == {DQ, BS, "/", "b", "f", "n", "r", "t"}
JsonEscape(c) ==
    CASE c = "b" -> "#8"
      [] c = "f" -> "\f"
      [] c = "n" -> NL
      [] c = "r" -> CR
      [] c = "t" -> TAB
      [] OTHER -> c

\* the string whose opening quote is just before p
RECURSIVE ScanString(_, _, _)
ScanString(s, p, acc) ==
    IF p > Len(s) THEN Fail
    ELSE IF s[p] = DQ THEN Ok(PyStr(acc), p + 1)
    ELSE IF s[p] \in ControlChars THEN Fail
    ELSE IF s[p] # BS THEN ScanString(s, p + 1, Append(acc, s[p]))
    ELSE IF p + 1 > Len(s) THEN Fail
    ELSE IF s[p + 1] = "u"
    THEN IF AllHex(s, p + 2, 4)
         THEN ScanString(s, p + 6, Append(acc, CharOfCode(HexRun(s, p + 2, 4))))
         ELSE Fail
    ELSE IF s[p + 1] \in JsonEscapes
    THEN ScanString(s, p + 2, Append(acc, JsonEscape(s[p + 1])))
    ELSE Fail

\* the end of the run of decimal digits that starts at p
RECURSIVE DigitsEnd(_, _)
DigitsEnd(s, p) == IF p <= Len(s) /\ IsDec(s[p]) THEN DigitsEnd(s, p + 1) ELSE p

RECURSIVE DecRun(_, _, _)
DecRun(s, p, q) == IF q < p THEN 0 ELSE 10 * DecRun(s, p, q - 1) + DecVal(s[q])

\* -?(0|[1-9][0-9]*)
ParseNumber(s, p) ==
    LET neg == s[p] = "-"
        d == IF neg THEN p + 1 ELSE p
    IN IF d > Len(s) \/ ~IsDec(s[d]) THEN Fail
       ELSE LET e == IF s[d] = "0" THEN d + 1 ELSE DigitsEnd(s, d)
                n == DecRun(s, d, e - 1)
            IN Ok(PyInt(IF neg THEN 0 - n ELSE n), e)

RECURSIVE ParseValue(_, _)
RECURSIVE ParseElements(_, _, _)
RECURSIVE ParseMembers(_, _, _)

ParseValue(s, p) ==
    IF p > Len(s) THEN Fail
    ELSE CASE s[p] = DQ -> ScanString(s, p + 1, <<>>)
           [] s[p] = "[" ->
                LET q == SkipJsonWs(s, p + 1) IN
                IF q <= Len(s) /\ s[q] = "]" THEN Ok(PyList(<<>>), q + 1)
                ELSE ParseElements(s, q, <<>>)
           [] s[p] = "{" ->
                LET q == SkipJsonWs(s, p + 1) IN
                IF q <= Len(s) /\ s[q] = "}" THEN Ok(PyDict(<<>>), q + 1)
                ELSE ParseMembers(s, q, <<>>)
           [] s[p] = "-" \/ IsDec(s[p]) -> ParseNumber(s, p)
           [] HasPrefixAt(s, p, <<"n", "u", "l", "l">>) -> Ok(None, p + 4)
           [] HasPrefixAt(s, p, <<"t", "r", "u", "e">>) -> Ok(PyBool(TRUE), p + 4)
           [] HasPrefixAt(s, p, <<"f", "a", "l", "s", "e">>) -> Ok(PyBool(FALSE), p + 5)
           [] OTHER -> Fail

\* the elements of an array, p at the first character of the next one
ParseElements(s, p, acc) ==
    LET v == ParseValue(s, p) IN
    IF ~v.ok THEN Fail
    ELSE LET q == SkipJsonWs(s, v.pos) IN
         IF q > Len(s) THEN Fail
         ELSE IF s[q] = "]" THEN Ok(PyList(Append(acc, v.val)), q + 1)
         ELSE IF s[q] = "," THEN ParseElements(s, SkipJsonWs(s, q + 1), Append(acc, v.val))
         ELSE Fail

\* the members of an object, p at the first character of the next key
ParseMembers(s, p, acc) ==
    IF p > Len(s) \/ s[p] # DQ THEN Fail
    ELSE LET k == ScanString(s, p + 1, <<>>) IN
         IF ~k.ok THEN Fail
         ELSE LET c == SkipJsonWs(s, k.pos) IN
              IF c > Len(s) \/ s[c] # ":" THEN Fail
              ELSE LET v == ParseValue(s, SkipJsonWs(s, c + 1)) IN
                   IF ~v.ok THEN Fail
                   ELSE LET q == SkipJsonWs(s, v.pos)
                            new == DictSet(acc, k.val.val, v.val)
                        IN IF q > Len(s) THEN Fail
                           ELSE IF s[q] = "}" THEN Ok(PyDict(new), q + 1)
                           ELSE IF s[q] = ","
                           THEN ParseMembers(s, SkipJsonWs(s, q + 1), new)
                           ELSE Fail

json_loads(s) ==
    LET v == ParseValue(s, SkipJsonWs(s, 1)) IN
    IF v.ok /\ SkipJsonWs(s, v.pos) > Len(s) THEN v ELSE Fail

----------------------------------------------------------------------------
(* The two patterns of load_robust_json and re.findall *)

K_user_query == <<"u", "s", "e", "r", "_", "q", "u", "e", "r", "y">>
K_message == <<"m", "e", "s", "s", "a", "g", "e">>
K_query == <<"q", "u", "e", "r", "y">>
K_text == <<"t", "e", "x", "t">>
K_response == <<"r", "e", "s", "p", "o", "n", "s", "e">>
K_bot_response == <<"b", "o", "t", "_", "r", "e", "s", "p", "o", "n", "s", "e">>

\* (user_query|message|query|text|response|bot_response), in the pattern's order
RoleKeys == <<K_user_query, K_message, K_query, K_text, K_response, K_bot_response>>

\* \s*
RECURSIVE SkipSpace(_, _)
SkipSpace(s, p) ==
    IF p <= Len(s) /\ s[p] \in PyWhitespace THEN SkipSpace(s, p + 1) ELSE p

\* ((?:[^q\\]|\\.)*)q from p: the position of the closing quote, 0 if none.
\* "." is any character but a newline.
RECURSIVE ValueEnd(_, _, _)
ValueEnd(q, s, p) ==
    IF p > Len(s) THEN 0
    ELSE IF s[p] = q THEN p
    ELSE IF s[p] # BS THEN ValueEnd(q, s, p + 1)
    ELSE IF p + 1 <= Len(s) /\ s[p + 1] # NL THEN ValueEnd(q, s, p + 2)
    ELSE 0

NoMatch == [ok |-> FALSE, key |-> <<>>, value |-> <<>>, end |-> 0]

\* the pattern with quote q, tried at position p
MatchAt(q, s, p) ==
    IF s[p] # q THEN NoMatch
    ELSE LET ks == {n \in DOMAIN RoleKeys :
                       /\ HasPrefixAt(s, p + 1, RoleKeys[n])
                       /\ HasPrefixAt(s, p + 1 + Len(RoleKeys[n]), <<q, ":">>)}
         IN IF ks = {} THEN NoMatch
            ELSE LET key == RoleKeys[CHOOSE n \in ks : \A m \in ks : n <= m]
                     open == SkipSpace(s, p + Len(key) + 3)
                 IN IF open > Len(s) \/ s[open] # q THEN NoMatch
                    ELSE LET close == ValueEnd(q, s, open + 1) IN
                         IF close = 0 THEN NoMatch
                         ELSE [ok |-> TRUE, key |-> key,
                               value |-> SubSeq(s, open + 1, close - 1),
                               end |-> close]

\* re.findall(pattern, s): the (key, value) groups of the matches, left to
\* right, each search starting where the last match ended
RECURSIVE FindAllFrom(_, _, _, _)
FindAllFrom(q, s, p, acc) ==
    LET starts == {n \in p..Len(s) : MatchAt(q, s, n).ok} IN
    IF starts = {} THEN acc
    ELSE LET m == MatchAt(q, s, CHOOSE n \in starts : \A k \in starts : n <= k)
         IN FindAllFrom(q, s, m.end + 1, Append(acc, <<m.key, m.value>>))

findall(q, s) == FindAllFrom(q, s, 1, <<>>)

----------------------------------------------------------------------------
(* value.encode('utf-8').decode('unicode_escape'): [ok, val], ok FALSE     *)
(* when the decoder raises UnicodeDecodeError.  \N{name} is outside the    *)
(* model (no document of the model holds it) and is taken to raise.        *)

SimpleEscapes == {BS, SQ, DQ, "a", "b", "f", "n", "r", "t", "v"}
SimpleEscape(c) ==
    CASE c = "a" -> "#7"
      [] c = "b" -> "#8"
      [] c = "f" -> "\f"
      [] c = "n" -> NL
      [] c = "r" -> CR
      [] c = "t" -> TAB
      [] c = "v" -> "#11"
      [] OTHER -> c

\* how many of s[p], s[p+1], s[p+2] form the octal escape that starts at p
OctLen(s, p) ==
    IF p + 1 <= Len(s) /\ IsOct(s[p + 1])
    THEN (IF p + 2 <= Len(s) /\ IsOct(s[p + 2]) THEN 3 ELSE 2)
    ELSE 1

RECURSIVE OctRun(_, _, _)
OctRun(s, p, n) ==
    IF n = 0 THEN 0 ELSE 8 * OctRun(s, p, n - 1) + DecVal(s[p + n - 1])

DecodeError == [ok |-> FALSE, val |-> <<>>]
MaxCodePoint == 1114111

RECURSIVE UnescapeFrom(_, _, _)
UnescapeFrom(s, p, acc) ==
    IF p > Len(s) THEN [ok |-> TRUE, val |-> acc]
    ELSE IF s[p] # BS THEN UnescapeFrom(s, p + 1, acc \o Utf8AsLatin1(s[p]))
    ELSE IF p = Len(s) THEN DecodeError
    ELSE LET c == s[p + 1] IN
         CASE c \in SimpleEscapes ->
                UnescapeFrom(s, p + 2, Append(acc, SimpleEscape(c)))
           [] c = NL -> UnescapeFrom(s, p + 2, acc)
           [] IsOct(c) ->
                LET n == OctLen(s, p + 1) IN
                UnescapeFrom(s, p + 1 + n, Append(acc, CharOfCode(OctRun(s, p + 1, n))))
           [] c = "x" ->
                IF AllHex(s, p + 2, 2)
                THEN UnescapeFrom(s, p + 4, Append(acc, CharOfCode(HexRun(s, p + 2, 2))))
                ELSE DecodeError
           [] c = "u" ->
                IF AllHex(s, p + 2, 4)
                THEN UnescapeFrom(s, p + 6, Append(acc, CharOfCode(HexRun(s, p + 2, 4))))
                ELSE DecodeError
           [] c = "U" ->
                IF AllHex(s, p + 2, 8) /\ HexRun(s, p + 2, 8) <= MaxCodePoint
                THEN UnescapeFrom(s, p + 10, Append(acc, CharOfCode(HexRun(s, p + 2, 8))))
                ELSE DecodeError
           [] c = "N" -> DecodeError
           [] OTHER -> UnescapeFrom(s, p + 1, Append(acc, BS))

unicode_escape(s) == UnescapeFrom(s, 1, <<>>)


----------------------------------------------------------------------------
(* load_robust_json *)

\* Strategy 1: json.loads("\n".join(clean_lines))
Strategy1(text) == json_loads(join(<<NL>>, clean_lines(text)))

\* the two patterns applied in the other order
FindItemsSingleFirst(text) == findall(SQ, text) \o findall(DQ, text)

\* the two re.findall calls, found_items.extend in the order of `patterns`
FindItems(text) == findall(DQ, text) \o findall(SQ, text)

\* the length test without the isdigit test
IgnoredOnlyShort(clean_val) == Len(clean_val) < 2

\* len(clean_val) < 2 or clean_val.isdigit()
Ignored(clean_val) == Len(clean_val) < 2 \/ isdigit(clean_val)

\* {key: clean_val}
Item(key, clean_val) == PyDict(<< <<key, PyStr(clean_val)>> >>)

\* the exceptions the body can raise; each is a subclass of Exception
Exceptions == {"OSError", "UnicodeDecodeError", "JSONDecodeError"}
\* a handler that names OSError alone
CaughtOnlyOSError(e) == e = "OSError"

\* `except Exception as e` catches e
CaughtByExceptException(e) == e \in Exceptions

\* lines 103-105: the handler around the whole body
OuterHandler(e) ==
    /\ pc' = "done"
    /\ IF CaughtByExceptException(e)
       THEN result' = PyList(<<>>) /\ ret' = 105 /\ raised' = FALSE
       ELSE result' = result /\ ret' = 0 /\ raised' = TRUE

\* lines 64-66: open and read
Open ==
    /\ pc = "open"
    /\ IF file.readable
       THEN /\ content' = file.content
            /\ pc' = "strict"
            /\ UNCHANGED <<result, ret, raised>>
       ELSE /\ OuterHandler("OSError")
            /\ UNCHANGED content
    /\ UNCHANGED <<file, found_items, idx, extracted_data, strict_raised>>
    /\ UNCHANGED <<normVars, mainVars>>

\* lines 69-73: the strict parse of the comment-stripped text; the bare
\* except takes every exception it raises
StrictParse ==
    /\ pc = "strict"
    /\ LET r == Strategy1(content) IN
       IF r.ok
       THEN /\ result' = r.val
            /\ ret' = 71
            /\ pc' = "done"
            /\ UNCHANGED strict_raised
       ELSE /\ strict_raised' = TRUE
            /\ pc' = "scan"
            /\ UNCHANGED <<result, ret>>
    /\ UNCHANGED <<file, content, found_items, idx, extracted_data, raised>>
    /\ UNCHANGED <<normVars, mainVars>>

\* lines 78-87: both patterns over the text read from the file
Scan ==
    /\ pc = "scan"
    /\ found_items' = FindItems(content)
    /\ extracted_data' = <<>>
    /\ idx' = 1
    /\ pc' = "loop"
    /\ UNCHANGED <<file, content, result, strict_raised, ret, raised>>
    /\ UNCHANGED <<normVars, mainVars>>

\* lines 89-94: one turn of `for key, value in found_items`
LoopStep ==
    /\ pc = "loop"
    /\ idx <= Len(found_items)
    /\ LET key == found_items[idx][1]
           clean_val == unicode_escape(found_items[idx][2])
       IN IF ~clean_val.ok
          THEN /\ OuterHandler("UnicodeDecodeError")
               /\ UNCHANGED <<idx, extracted_data>>
          ELSE /\ idx' = idx + 1
               /\ extracted_data' =
                    IF Ignored(clean_val.val) THEN extracted_data
                    ELSE Append(extracted_data, Item(key, clean_val.val))
               /\ UNCHANGED <<pc, result, ret, raised>>
    /\ UNCHANGED <<file, content, found_items, strict_raised>>
    /\ UNCHANGED <<normVars, mainVars>>

\* lines 96-101: the loop is over
Finish ==
    /\ pc = "loop"
    /\ idx > Len(found_items)
    /\ result' = PyList(extracted_data)
    /\ ret' = IF extracted_data = <<>> THEN 98 ELSE 101
    /\ pc' = "done"
    /\ UNCHANGED <<file, content, found_items, idx, extracted_data,
                   strict_raised, raised>>
    /\ UNCHANGED <<normVars, mainVars>>

----------------------------------------------------------------------------
(* The files load_robust_json is run on: every concatenation of at most    *)
(* MaxFrags fragments, and a file that cannot be opened.                   *)

MaxFrags == 3

Quoted(q, t) == <<q>> \o t \o <<q>>
Pair(q, k, v) == Quoted(q, k) \o <<":", SP>> \o Quoted(q, v)

Fragments == <<
    Pair(DQ, K_message, <<"h", "e", "l", "l", "o">>),
    Pair(SQ, K_text, <<"h", "i">>),
    Pair(DQ, K_query, <<"4", "2">>),
    Pair(DQ, <<"i", "d">>, <<"a", "b", "c">>),
    Pair(DQ, K_response, <<"C", ":", BS, "u", "s", "r">>),
    Pair(DQ, K_bot_response, <<BS, "n">>),
    Pair(SQ, K_user_query, <<BS, "x", "b", "2", BS, "x", "b", "3">>),
    Pair(SQ, K_text, <<EAcute>>),
    <<"{">>, <<"}">>,
    <<NL>>,
    <<"/", "/">>,
    <<"[">> \o Quoted(DQ, <<"h", "i">>) \o <<"]">>,
    <<"[">> \o Quoted(DQ, <<"a", LS, "b">>) \o <<"]">>
>>

RECURSIVE Concat(_)
Concat(seqs) == IF seqs = <<>> THEN <<>> ELSE Head(seqs) \o Concat(Tail(seqs))

\* the texts made of at most n fragments, in any order
Documents(n) ==
    UNION {{Concat([m \in 1..k |-> Fragments[pick[m]]]) :
                pick \in [1..k -> DOMAIN Fragments]} : k \in 0..n}

\* a file that cannot be opened, or one holding a document
Files(n) == {[readable |-> TRUE, content |-> d] : d \in Documents(n)}
               \cup {[readable |-> FALSE, content |-> <<>>]}

Idle == None

InitLoad ==
    /\ file \in Files(MaxFrags)
    /\ pc = "open"
    /\ content = <<>>
    /\ found_items = <<>>
    /\ idx = 0
    /\ extracted_data = <<>>
    /\ result = None
    /\ strict_raised = FALSE
    /\ ret = 0
    /\ raised = FALSE
    /\ data = Idle /\ once = Idle /\ twice = Idle
    /\ chats_data = Idle /\ contexts_data = Idle
    /\ chat_list = <<>> /\ context_list = <<>> /\ limit = 0 /\ i = 0
    /\ query = Idle /\ response = Idle /\ context_text = <<>>
    /\ calls = <<>>

NextLoad == Open \/ StrictParse \/ Scan \/ LoopStep \/ Finish

SpecLoad == InitLoad /\ [][NextLoad]_vars


----------------------------------------------------------------------------
(* Python's truth value, str() and repr() of a value *)

\* bool(v)
Truthy(v) ==
    CASE v.kind = "none" -> FALSE
      [] v.kind = "bool" -> v.val
      [] v.kind = "int" -> v.val # 0
      [] OTHER -> Len(v.val) > 0

\* str(n) of a natural number, then of an integer
RECURSIVE NatText(_)
NatText(n) ==
    IF n < 10 THEN <<DecDigits[n + 1]>>
    ELSE Append(NatText(n \div 10), DecDigits[(n % 10) + 1])

IntText(n) == IF n < 0 THEN <<"-">> \o NatText(0 - n) ELSE NatText(n)

InText(c, t) == \E n \in DOMAIN t : t[n] = c

\* repr of a str: single quotes unless the text holds one and no double
\* quote; the quote, the backslash and \n \r \t are escaped.  (Other
\* non-printable characters, which repr escapes too, are in no value the
\* driver is run on.)
ReprChar(c, q) ==
    CASE c = BS -> <<BS, BS>>
      [] c = q -> <<BS, q>>
      [] c = NL -> <<BS, "n">>
      [] c = CR -> <<BS, "r">>
      [] c = TAB -> <<BS, "t">>
      [] OTHER -> <<c>>

ReprStr(t) ==
    LET q == IF InText(SQ, t) /\ ~InText(DQ, t) THEN DQ ELSE SQ IN
    <<q>> \o Concat([n \in DOMAIN t |-> ReprChar(t[n], q)]) \o <<q>>

RECURSIVE Repr(_)
Repr(v) ==
    CASE v.kind = "none" -> <<"N", "o", "n", "e">>
      [] v.kind = "bool" ->
            IF v.val THEN <<"T", "r", "u", "e">> ELSE <<"F", "a", "l", "s", "e">>
      [] v.kind = "int" -> IntText(v.val)
      [] v.kind = "str" -> ReprStr(v.val)
      [] v.kind = "list" ->
            <<"[">> \o join(<<",", SP>>, [n \in DOMAIN v.val |-> Repr(v.val[n])])
                    \o <<"]">>
      [] v.kind = "dict" ->
            <<"{">> \o join(<<",", SP>>,
                            [n \in DOMAIN v.val |->
                                ReprStr(v.val[n][1]) \o <<":", SP>> \o Repr(v.val[n][2])])
                    \o <<"}">>

\* str(v)
Str(v) == IF v.kind = "str" THEN v.val ELSE Repr(v)

\* a == b, for the comparisons the driver makes (a value against a str)
PyEq(a, b) == a.kind = b.kind /\ a.val = b.val

----------------------------------------------------------------------------
(* extract_list_from_data *)

K_conversation_turns == <<"c", "o", "n", "v", "e", "r", "s", "a", "t", "i", "o", "n", "_", "t", "u", "r", "n", "s">>
K_vector_data == <<"v", "e", "c", "t", "o", "r", "_", "d", "a", "t", "a">>
K_data == <<"d", "a", "t", "a">>
K_chats == <<"c", "h", "a", "t", "s">>
K_context == <<"c", "o", "n", "t", "e", "x", "t">>
K_role == <<"r", "o", "l", "e">>
K_answer == <<"a", "n", "s", "w", "e", "r">>
K_chunks == <<"c", "h", "u", "n", "k", "s">>
K_id == <<"i", "d">>

\* the candidate keys probed last to first
possible_keys_reversed ==
    <<K_context, K_chats, K_data, K_vector_data, K_conversation_turns>>

\* possible_keys, in the order probed
possible_keys == <<K_conversation_turns, K_vector_data, K_data, K_chats, K_context>>

\* lines 118-120: the keys of possible_keys that are in d with a list value
ListKeys(d) ==
    {n \in DOMAIN possible_keys :
        HasKey(d, possible_keys[n]) /\ IsList(Get(d, possible_keys[n]))}

\* the probe without its isinstance(data[key], list) test
extract_without_list_test(d) ==
    IF IsList(d) THEN d
    ELSE IF IsDict(d)
    THEN LET present == {n \in DOMAIN possible_keys : HasKey(d, possible_keys[n])} IN
         IF present # {}
         THEN Get(d, possible_keys[CHOOSE n \in present : \A m \in present : n <= m])
         ELSE IF HasKey(d, K_message) \/ HasKey(d, K_text) THEN PyList(<<d>>)
         ELSE PyList(<<>>)
    ELSE PyList(<<>>)

extract_list_from_data(d) ==
    IF IsList(d) THEN d
    ELSE IF IsDict(d)
    THEN IF ListKeys(d) # {}
         THEN Get(d, possible_keys[CHOOSE n \in ListKeys(d) :
                                       \A m \in ListKeys(d) : n <= m])
         ELSE IF HasKey(d, K_message) \/ HasKey(d, K_text) THEN PyList(<<d>>)
         ELSE PyList(<<>>)
    ELSE PyList(<<>>)

\* extract_list_from_data applied to an argument, and to its own result
NormOnce ==
    /\ pc = "norm"
    /\ once' = extract_list_from_data(data)
    /\ pc' = "renorm"
    /\ UNCHANGED <<data, twice>>
    /\ UNCHANGED <<file, content, found_items, idx, extracted_data, result,
                   strict_raised, ret, raised, mainVars>>

NormTwice ==
    /\ pc = "renorm"
    /\ twice' = extract_list_from_data(once)
    /\ pc' = "done"
    /\ UNCHANGED <<data, once>>
    /\ UNCHANGED <<file, content, found_items, idx, extracted_data, result,
                   strict_raised, ret, raised, mainVars>>


----------------------------------------------------------------------------
(* __main__: the pipeline driver *)

QueryKeys == {K_user_query, K_message, K_query, K_text}
ResponseKeys == {K_bot_response, K_response, K_answer}
ContextKeys == {K_text, K_context, K_chunks}
AIChatbot == <<"A", "I", "/", "C", "h", "a", "t", "b", "o", "t">>
GeneratedResponse == <<"G", "e", "n", "e", "r", "a", "t", "e", "d", " ", "R", "e", "s", "p", "o", "n", "s", "e">>
ContextNotFound == <<"C", "o", "n", "t", "e", "x", "t", " ", "N", "o", "t", " ", "F", "o", "u", "n", "d">>

\* the key search without the role filter of line 163
RECURSIVE KeySearchAnyRole(_, _, _, _)
KeySearchAnyRole(chat, n, q, r) ==
    IF n > Len(chat.val) THEN [query |-> q, response |-> r]
    ELSE LET k == chat.val[n][1]
             v == chat.val[n][2]
         IN KeySearchAnyRole(chat, n + 1,
                IF k \in QueryKeys /\ ~Truthy(q) THEN v ELSE q,
                IF k \in ResponseKeys /\ ~Truthy(r) THEN v ELSE r)

\* lines 160-165: `for k, v in chat.items()` from the n-th pair on, with
\* query q and response r so far
RECURSIVE KeySearch(_, _, _, _)
KeySearch(chat, n, q, r) ==
    IF n > Len(chat.val) THEN [query |-> q, response |-> r]
    ELSE LET k == chat.val[n][1]
             v == chat.val[n][2]
         IN KeySearch(chat, n + 1,
                IF /\ k \in QueryKeys
                   /\ ~Truthy(q)
                   /\ ~PyEq(GetOrNone(chat, K_role), PyStr(AIChatbot))
                THEN v ELSE q,
                IF k \in ResponseKeys /\ ~Truthy(r) THEN v ELSE r)

\* lines 156-168: the query of a chat item, with the 'message' fallback
ResolveQuery(chat) ==
    LET q == KeySearch(chat, 1, None, None).query IN
    IF ~Truthy(q) /\ HasKey(chat, K_message) THEN Get(chat, K_message) ELSE q

\* lines 157-165
ResolveResponse(chat) == KeySearch(chat, 1, None, None).response

\* the context search stopping at its first match
RECURSIVE ContextSearchFirst(_, _, _)
ContextSearchFirst(ctx, n, text) ==
    IF n > Len(ctx.val) THEN text
    ELSE IF ctx.val[n][1] \in ContextKeys THEN Str(ctx.val[n][2])
    ELSE ContextSearchFirst(ctx, n + 1, text)

\* lines 173-174: `for k, v in ctx.items()` from the n-th pair on
RECURSIVE ContextSearch(_, _, _)
ContextSearch(ctx, n, text) ==
    IF n > Len(ctx.val) THEN text
    ELSE ContextSearch(ctx, n + 1,
            IF ctx.val[n][1] \in ContextKeys THEN Str(ctx.val[n][2]) ELSE text)

\* lines 171-176
ResolveContext(ctx) ==
    IF IsDict(ctx) THEN ContextSearch(ctx, 1, ContextNotFound) ELSE Str(ctx)

\* the gate one character too lenient
PassesGateFrom5(q) == Truthy(q) /\ Len(Str(q)) > 4

\* line 179: query and len(str(query)) > 5
PassesGate(q) == Truthy(q) /\ Len(Str(q)) > 5

\* lines 140-145: extract_list_from_data, then the flat-list fallback
Unpacked(d) ==
    LET l == extract_list_from_data(d).val IN
    IF l = <<>> /\ IsList(d) THEN d.val ELSE l

Min(a, b) == IF a <= b THEN a ELSE b

\* lines 136-149, and 194-195 when a load returned None
Unpack ==
    /\ pc = "main"
    /\ IF chats_data.kind # "none" /\ contexts_data.kind # "none"
       THEN /\ chat_list' = Unpacked(chats_data)
            /\ context_list' = Unpacked(contexts_data)
            /\ limit' = Min(Len(chat_list'), Len(context_list'))
            /\ pc' = IF limit' > 0 THEN "pair" ELSE "done"
       ELSE /\ pc' = "done"
            /\ UNCHANGED <<chat_list, context_list, limit>>
    /\ i' = 0
    /\ UNCHANGED <<chats_data, contexts_data, query, response, context_text, calls>>
    /\ UNCHANGED <<file, content, found_items, idx, extracted_data, result,
                   strict_raised, ret, raised, normVars>>

\* lines 152-168: chat.items() exists only on a dict; the AttributeError of
\* any other item has no handler and ends the run
KeySearchStep ==
    /\ pc = "pair"
    /\ LET chat == chat_list[i + 1] IN
       IF IsDict(chat)
       THEN /\ query' = ResolveQuery(chat)
            /\ response' = ResolveResponse(chat)
            /\ pc' = "context"
            /\ UNCHANGED raised
       ELSE /\ raised' = TRUE
            /\ pc' = "done"
            /\ query' = None
            /\ response' = None
    /\ UNCHANGED <<chats_data, contexts_data, chat_list, context_list, limit, i,
                   context_text, calls>>
    /\ UNCHANGED <<file, content, found_items, idx, extracted_data, result,
                   strict_raised, ret, normVars>>

\* lines 170-176
ContextStep ==
    /\ pc = "context"
    /\ context_text' = ResolveContext(context_list[i + 1])
    /\ pc' = "gate"
    /\ UNCHANGED <<chats_data, contexts_data, chat_list, context_list, limit, i,
                   query, response, calls>>
    /\ UNCHANGED <<file, content, found_items, idx, extracted_data, result,
                   strict_raised, ret, raised, normVars>>

\* the end of one turn of `for i in range(limit)`
NextPair ==
    /\ i' = i + 1
    /\ pc' = IF i + 1 < limit THEN "pair" ELSE "done"

\* lines 179-193: the pair is evaluated.  Of evaluate_response the call and
\* its arguments are kept; its sleep, its scores and its cost are not.
Evaluate ==
    /\ pc = "gate"
    /\ PassesGate(query)
    /\ response' = IF Truthy(response) THEN response ELSE PyStr(GeneratedResponse)
    /\ calls' = Append(calls, [pair |-> i + 1,
                               query |-> query,
                               context |-> context_text,
                               response |-> Str(response')])
    /\ NextPair
    /\ UNCHANGED <<chats_data, contexts_data, chat_list, context_list, limit,
                   query, context_text>>
    /\ UNCHANGED <<file, content, found_items, idx, extracted_data, result,
                   strict_raised, ret, raised, normVars>>

\* line 179 is false: nothing is printed or called for the pair
Skip ==
    /\ pc = "gate"
    /\ ~PassesGate(query)
    /\ NextPair
    /\ UNCHANGED <<chats_data, contexts_data, chat_list, context_list, limit,
                   query, response, context_text, calls>>
    /\ UNCHANGED <<file, content, found_items, idx, extracted_data, result,
                   strict_raised, ret, raised, normVars>>

----------------------------------------------------------------------------
(* The values the normalizer and the driver are run on *)

MaxKeys == 2
MaxItems == 2

\* the dicts of at most n of the pairs kv, with distinct keys, in every order
DictsOver(kv, n) ==
    {PyDict(s) : s \in UNION {{t \in [1..k -> kv] :
                                 \A a, b \in 1..k : a # b => t[a][1] # t[b][1]} :
                              k \in 0..n}}

\* the lists of at most n of the items
ListsOver(items, n) == {PyList(s) : s \in UNION {[1..k -> items] : k \in 0..n}}

Hello == <<"H", "e", "l", "l", "o">>
HelloBang == <<"H", "e", "l", "l", "o", "!">>
Howdy == <<"H", "o", "w", "d", "y", "?">>
Fine == <<"F", "i", "n", "e", ".">>
User == <<"u", "s", "e", "r">>

ChatPairs ==
    {<<K_query, v>> : v \in {PyStr(<<>>), PyStr(Hello), PyStr(HelloBang), PyInt(123456)}}
    \cup {<<K_message, v>> : v \in {PyStr(<<>>), PyStr(Howdy)}}
    \cup {<<K_role, v>> : v \in {PyStr(AIChatbot), PyStr(User)}}
    \cup {<<K_response, v>> : v \in {PyStr(<<>>), PyStr(Fine)}}

ChatItems == DictsOver(ChatPairs, MaxKeys) \cup {PyStr(HelloBang), PyInt(5)}

SimpleChats == {PyDict(<< <<K_message, PyStr(Howdy)>> >>),
                PyDict(<< <<K_query, PyStr(Hello)>> >>),
                PyStr(HelloBang)}

ChatInputs ==
    {PyList(<<c>>) : c \in ChatItems}
    \cup ListsOver(SimpleChats, MaxItems)
    \cup {PyDict(<< <<K_conversation_turns, PyList(<<c>>)>> >>) : c \in SimpleChats}
    \cup {None, PyStr(Hello), PyDict(<< <<K_message, PyStr(Howdy)>> >>)}

ContextPairs ==
    {<<K_text, v>> : v \in {PyStr(<<"A">>), PyInt(12)}}
    \cup {<<K_context, PyStr(<<"B">>)>>,
          <<K_chunks, PyList(<<PyStr(<<"c">>)>>)>>,
          <<K_id, PyInt(1)>>}

ContextItems == DictsOver(ContextPairs, MaxKeys) \cup {PyStr(<<"r", "a", "w">>), None}

SimpleContexts == {PyDict(<< <<K_text, PyStr(<<"A">>)>> >>), PyInt(3)}

ContextInputs ==
    {PyList(<<c>>) : c \in ContextItems}
    \cup ListsOver(SimpleContexts, MaxItems)
    \cup {PyDict(<< <<K_vector_data, PyList(<<c>>)>> >>) : c \in SimpleContexts}
    \cup {None, PyDict(<< <<K_text, PyStr(<<"A">>)>> >>)}

NormPairs ==
    {<<K_conversation_turns, v>> : v \in {PyList(<<PyStr(<<"A">>)>>), PyStr(<<"s">>)}}
    \cup {<<K_vector_data, PyList(<<PyStr(<<"B">>)>>)>>}
    \cup {<<K_data, v>> : v \in {PyList(<<PyStr(<<"C">>)>>),
                                 PyDict(<< <<K_message, PyStr(Howdy)>> >>)}}
    \cup {<<K_chats, PyList(<<>>)>>}
    \cup {<<K_context, v>> : v \in {PyList(<<PyStr(<<"D">>)>>), PyInt(0)}}
    \cup {<<K_message, PyStr(Howdy)>>, <<K_text, PyStr(<<"A">>)>>, <<K_id, PyInt(1)>>}

NormInputs ==
    DictsOver(NormPairs, MaxKeys)
    \cup ListsOver(SimpleChats, MaxItems)
    \cup {None, PyStr(Hello), PyInt(5), PyBool(TRUE)}

LoadIdle ==
    /\ file = [readable |-> FALSE, content |-> <<>>]
    /\ content = <<>>
    /\ found_items = <<>>
    /\ idx = 0
    /\ extracted_data = <<>>
    /\ result = None
    /\ strict_raised = FALSE
    /\ ret = 0
    /\ raised = FALSE

MainIdle ==
    /\ chat_list = <<>> /\ context_list = <<>> /\ limit = 0 /\ i = 0
    /\ query = Idle /\ response = Idle /\ context_text = <<>>
    /\ calls = <<>>

InitNorm ==
    /\ data \in NormInputs
    /\ once = Idle /\ twice = Idle
    /\ pc = "norm"
    /\ LoadIdle
    /\ chats_data = Idle /\ contexts_data = Idle
    /\ MainIdle

NextNorm == NormOnce \/ NormTwice

SpecNorm == InitNorm /\ [][NextNorm]_vars

\* the driver after the two load_robust_json calls of lines 133-134
Init ==
    /\ chats_data \in ChatInputs
    /\ contexts_data \in ContextInputs
    /\ pc = "main"
    /\ MainIdle
    /\ LoadIdle
    /\ data = Idle /\ once = Idle /\ twice = Idle

Next == Unpack \/ KeySearchStep \/ ContextStep \/ Evaluate \/ Skip

Spec == Init /\ [][Next]_vars


----------------------------------------------------------------------------
(* Properties of load_robust_json, checked under SpecLoad *)

ReturnedSalvage == pc = "done" /\ ret \in {98, 101}

RoleKeySet == {K_user_query, K_message, K_query, K_text, K_response, K_bot_response}

\* a single-key item whose key is in the whitelist
IsSalvageItem(v) ==
    /\ IsDict(v)
    /\ Len(v.val) = 1
    /\ v.val[1][1] \in RoleKeySet
    /\ v.val[1][2].kind = "str"

\* some line of the text is a comment line
HasCommentLine(text) ==
    \E n \in DOMAIN splitlines(text) : IsCommentLine(splitlines(text)[n])

\* C1: load_robust_json never raises, whatever the file holds and also when
\* the file cannot be read or a matched value cannot be unescaped; what it
\* returns is the strict-parse result, or a non-empty list of single-key
\* items with whitelisted keys, or an empty list.
C1_NeverRaises ==
    /\ raised = FALSE
    /\ pc = "done" =>
         /\ ret \in {71, 98, 101, 105}
         /\ \/ ret = 71 /\ ~strict_raised /\ result = Strategy1(file.content).val
            \/ /\ strict_raised
               /\ IsList(result)
               /\ result.val # <<>>
               /\ \A n \in DOMAIN result.val : IsSalvageItem(result.val[n])
            \/ result = PyList(<<>>)

\* a readable file whose strict parse raised and one of whose matched values
\* could not be unescaped: the error was absorbed
C1_Witness ==
    /\ pc = "done" /\ ret = 105
    /\ file.readable /\ strict_raised
    /\ \E n \in DOMAIN found_items : ~unicode_escape(found_items[n][2]).ok
    /\ result = PyList(<<>>)

\* C2: for a well-formed document without comment lines, what is returned is
\* json.loads of the unmodified text, by the strict strategy.
C2_StrictIsLossless ==
    (/\ pc = "done"
     /\ file.readable
     /\ json_loads(file.content).ok
     /\ ~HasCommentLine(file.content))
    => /\ ret = 71
       /\ result = json_loads(file.content).val

\* every character is one of 0..9
AllDecimal(t) == t # <<>> /\ \A n \in DOMAIN t : IsDec(t[n])

\* the item found_items[n] gives when its value unescapes
FoundItem(n) == Item(found_items[n][1], unicode_escape(found_items[n][2]).val)
FoundValue(n) == unicode_escape(found_items[n][2]).val
EmittedAt(n) == \E m \in DOMAIN result.val : result.val[m] = FoundItem(n)

\* C3 as stated: in a salvage-mode result every value is at least 2
\* characters long and not all decimal digits, and every matched pair whose
\* unescaped value is so is emitted.
C3_DecimalDigits ==
    ReturnedSalvage =>
      /\ \A m \in DOMAIN result.val :
            LET v == result.val[m].val[1][2].val IN Len(v) >= 2 /\ ~AllDecimal(v)
      /\ \A n \in DOMAIN found_items :
            (Len(FoundValue(n)) >= 2 /\ ~AllDecimal(FoundValue(n))) => EmittedAt(n)

\* C3 as amended: in a salvage-mode result every value is at least 2
\* characters long and not all digits in the sense of str.isdigit (which
\* counts the superscript digits too); the matched pairs whose unescaped
\* value is shorter or all such digits are discarded, all others are emitted.
C3_IsDigit ==
    ReturnedSalvage =>
      /\ \A m \in DOMAIN result.val :
            LET v == result.val[m].val[1][2].val IN Len(v) >= 2 /\ ~isdigit(v)
      /\ \A n \in DOMAIN found_items :
            (Len(FoundValue(n)) >= 2 /\ ~isdigit(FoundValue(n))) <=> EmittedAt(n)
      /\ Len(result.val) =
            Cardinality({n \in DOMAIN found_items :
                            Len(FoundValue(n)) >= 2 /\ ~isdigit(FoundValue(n))})

\* a salvage result that kept a pair and dropped an all-digit one
C3_Witness ==
    /\ ReturnedSalvage
    /\ result.val # <<>>
    /\ \E n \in DOMAIN found_items : AllDecimal(FoundValue(n)) /\ ~EmittedAt(n)

\* the items salvage is to emit for matched pairs: each unescaped, the short
\* and the all-digit ones dropped, the order kept
Survivors(pairs) ==
    SelectSeq([n \in DOMAIN pairs |->
                  Item(pairs[n][1], unicode_escape(pairs[n][2]).val)],
              LAMBDA it : ~(Len(it.val[1][2].val) < 2 \/ isdigit(it.val[1][2].val)))

\* C10: salvage runs only after the comment-stripped strict parse raised; it
\* scans the text as read from the file; what it emits is the surviving
\* matches of the double-quoted pattern in document order, then those of the
\* single-quoted pattern in document order.
C10_SalvageOrder ==
    /\ pc \in {"scan", "loop"} => strict_raised
    /\ pc = "scan" => ~Strategy1(file.content).ok
    /\ pc = "loop" /\ idx = 1 =>
         found_items = findall(DQ, file.content) \o findall(SQ, file.content)
    /\ ReturnedSalvage =>
         /\ strict_raised
         /\ result.val =
              Survivors(findall(DQ, file.content) \o findall(SQ, file.content))

\* a file that opens with a comment line holding a single-quoted pair and,
\* after it, a double-quoted pair: both are emitted, the double-quoted first
C10_Witness ==
    /\ ReturnedSalvage
    /\ HasPrefixAt(file.content, 1, <<"/", "/", SQ>>)
    /\ HasCommentLine(file.content)
    /\ Len(result.val) = 2
    /\ result.val[1] = Item(K_message, <<"h", "e", "l", "l", "o">>)
    /\ result.val[2] = Item(K_text, <<"h", "i">>)

----------------------------------------------------------------------------
(* Properties of extract_list_from_data, checked under SpecNorm *)

\* C7: a list argument is returned unchanged, and applying the function to
\* its own result changes nothing, for every argument.
C7_Idempotent ==
    /\ pc \in {"renorm", "done"} => IsList(once) /\ (IsList(data) => once = data)
    /\ pc = "done" => twice = once

\* a two-item list went through twice and came back as it was
C7_Witness ==
    /\ pc = "done"
    /\ IsList(data) /\ Len(data.val) = 2
    /\ once = data /\ twice = data

\* the candidate keys in the order the claim gives
ProbeOrder == <<K_conversation_turns, K_vector_data, K_data, K_chats, K_context>>

\* the n-th candidate key is present in data with a list value
Qualifies(n) == HasKey(data, ProbeOrder[n]) /\ IsList(Get(data, ProbeOrder[n]))

\* C8: for a dict, the value of the first candidate key (in the fixed order)
\* that is present with a list value; if there is none, the dict itself as
\* the one item when it has "message" or "text", else nothing; nothing for a
\* scalar.
C8_ProbeOrder ==
    pc \in {"renorm", "done"} =>
      IF IsDict(data)
      THEN /\ \A n \in DOMAIN ProbeOrder :
                (Qualifies(n) /\ \A m \in 1..(n - 1) : ~Qualifies(m))
                    => once = Get(data, ProbeOrder[n])
           /\ (\A n \in DOMAIN ProbeOrder : ~Qualifies(n)) =>
                once = IF HasKey(data, K_message) \/ HasKey(data, K_text)
                       THEN PyList(<<data>>) ELSE PyList(<<>>)
      ELSE ~IsList(data) => once = PyList(<<>>)

\* a dict whose first candidate key holds a string: the probe went on to a
\* later key
C8_Witness ==
    /\ pc = "done"
    /\ IsDict(data)
    /\ HasKey(data, K_conversation_turns)
    /\ ~IsList(Get(data, K_conversation_turns))
    /\ HasKey(data, K_context)
    /\ once = Get(data, K_context)
    /\ once.val # <<>>

----------------------------------------------------------------------------
(* Properties of the driver, checked under Spec *)

\* C4: every evaluate_response call has a query that is non-empty and more
\* than 5 characters long as a string; a completed pair whose query is
\* missing or that short has no call, and no error comes of skipping it.
C4_QueryGate ==
    /\ \A n \in DOMAIN calls :
          Truthy(calls[n].query) /\ Len(Str(calls[n].query)) > 5
    /\ \A j \in 1..i :
          LET q == ResolveQuery(chat_list[j]) IN
          (~Truthy(q) \/ Len(Str(q)) <= 5) => ~\E n \in DOMAIN calls : calls[n].pair = j
    /\ pc = "gate" => ~raised
    /\ raised => pc = "done" /\ ~IsDict(chat_list[i + 1])

\* two pairs were processed without error: one evaluated, one skipped
C4_Witness ==
    /\ pc = "done" /\ ~raised
    /\ i = 2
    /\ Len(calls) = 1

\* C5: the driver always runs to completion, whatever the two loads
\* returned: no error is raised, every pair is processed.
C5_AlwaysCompletes ==
    /\ ~raised
    /\ pc = "done" => i = limit

\* the places of the query keys in a chat item
QueryPlaces(chat) ==
    {n \in DOMAIN chat.val :
        chat.val[n][1] \in {K_user_query, K_message, K_query, K_text}}
RoleIsAI(chat) == PyEq(GetOrNone(chat, K_role), PyStr(AIChatbot))
First(places) == CHOOSE n \in places : \A m \in places : n <= m
Last(places) == CHOOSE n \in places : \A m \in places : m <= n

\* C6 as stated: the value of the first query key, unless the role is
\* AI/Chatbot; when that gave no query, the "message" value if there is one
ClaimedQuery(chat) ==
    LET scan == IF QueryPlaces(chat) # {} /\ ~RoleIsAI(chat)
                THEN chat.val[First(QueryPlaces(chat))][2] ELSE None
    IN IF ~Truthy(scan) /\ HasKey(chat, K_message) THEN Get(chat, K_message)
       ELSE scan

\* C6: the query of the pair in hand is the one the claim describes.
C6_FirstQueryKey ==
    pc \in {"context", "gate"} => query = ClaimedQuery(chat_list[i + 1])

\* C6 as amended: a value under a query key is taken while the query so far
\* is empty (None, "", 0, false, [] or {}), so the scan gives the first
\* non-empty such value, or the last such value when all are empty, or
\* nothing when there is no query key or the role is AI/Chatbot; when what
\* it gave is empty, the "message" value is the query if there is one
AmendedQuery(chat) ==
    LET places == QueryPlaces(chat)
        full == {n \in places : Truthy(chat.val[n][2])}
        scan == IF places = {} \/ RoleIsAI(chat) THEN None
                ELSE IF full # {} THEN chat.val[First(full)][2]
                ELSE chat.val[Last(places)][2]
    IN IF ~Truthy(scan) /\ HasKey(chat, K_message) THEN Get(chat, K_message)
       ELSE scan

C6_FirstNonEmptyQueryKey ==
    pc \in {"context", "gate"} => query = AmendedQuery(chat_list[i + 1])

\* an item whose first query key holds "" and whose second holds a text: the
\* second is the query
C6_Witness ==
    /\ pc = "gate"
    /\ LET chat == chat_list[i + 1] IN
       /\ Len(chat.val) = 2
       /\ QueryPlaces(chat) = {1, 2}
       /\ ~Truthy(chat.val[1][2])
       /\ Truthy(chat.val[2][2])
       /\ query = chat.val[2][2]

\* the places of the context keys in a context item
ContextPlaces(ctx) ==
    {n \in DOMAIN ctx.val : ctx.val[n][1] \in {K_text, K_context, K_chunks}}

\* C9: for a dict, str of the value of the last context key in stored order,
\* or "Context Not Found" when it has none; str of the item otherwise.
C9_LastContextKey ==
    pc = "gate" =>
      LET ctx == context_list[i + 1] IN
      context_text =
        IF IsDict(ctx)
        THEN IF ContextPlaces(ctx) = {} THEN ContextNotFound
             ELSE Str(ctx.val[Last(ContextPlaces(ctx))][2])
        ELSE Str(ctx)

\* a context item with two context keys of different values: the later won
C9_Witness ==
    /\ pc = "gate"
    /\ LET ctx == context_list[i + 1] IN
       /\ IsDict(ctx)
       /\ ContextPlaces(ctx) = {1, 2}
       /\ Str(ctx.val[1][2]) # Str(ctx.val[2][2])
       /\ context_text = Str(ctx.val[2][2])

=============================================================================
